---- MODULE Spec2Model ----
(***************************************************************************)
(* A model of jsi (src/jsi/__init__.py): the import of playlists from a    *)
(* spotify export or a csv file into a jellyfin server.                    *)
(*                                                                         *)
(* The state is the command line (params), the input file, the server      *)
(* (library of the artists it knows, playlists), and what one run of main  *)
(* holds: its position, the memo tables of get_all_albums and              *)
(* get_all_tracks, the identifiers resolved so far, and a log of the       *)
(* requests it has sent.                                                   *)
(***************************************************************************)
EXTENDS Integers, Sequences, FiniteSets, TLC

VARIABLES
    params,          \* ctx.params: fuzz, any_album, dry_run, spotify, _csv
    file,            \* the input file: [ok, playlists]
    library,         \* the albums the server holds: artist -> albums
    playlists,       \* the server's playlists: name -> [exists, ids]
    pc,              \* position of main
    exitCode,        \* process exit status, once pc = "exited"
    todo,            \* playlists main still has to hand to create_playlist
    rest,            \* tracks of the current playlist not yet resolved
    jellyfin_tracks, \* create_playlist's set of resolved identifiers
    resolvedSeq,     \* the same identifiers in the order get_music returned them
    albumsCache,     \* @cache of get_all_albums: artist -> [hit, val]
    tracksCache,     \* @cache of get_all_tracks: <<artist, album>> -> [hit, val]
    requests,        \* kinds of request this run has sent to the server
    failed,          \* kinds of request that failed in this run (network failure)
    calls,           \* playlist create / append calls this run has sent
    last,            \* the last get_music call: its track and what it returned
    run,             \* number of the run of main
    prevSynced       \* playlists the previous run created or appended to

vars == <<params, file, library, playlists, pc, exitCode, todo, rest,
          jellyfin_tracks, resolvedSeq, albumsCache, tracksCache, requests,
          failed, calls, last, run, prevSynced>>

-----------------------------------------------------------------------------
(* Bounds of the model *)

MaxAlbums == 2       \* albums of artist "x"
MaxRows == 2         \* track entries in the input file
MaxPlaylists == 2    \* playlists in a spotify export
MaxRuns == 2         \* runs of main against the same server

-----------------------------------------------------------------------------
(* Strings are sequences of characters *)

Min(a, b) == IF a <= b THEN a ELSE b
Max(a, b) == IF a >= b THEN a ELSE b

Letters == {"a", "b", "c", "d"}
Capitals == {"A", "B"}

ToLower(c) == IF c = "A" THEN "a" ELSE IF c = "B" THEN "b" ELSE c

RECURSIVE LStrip(_)
LStrip(s) == IF s = <<>> THEN <<>>
             ELSE IF Head(s) = " " THEN LStrip(Tail(s)) ELSE s

RECURSIVE RStrip(_)
RStrip(s) == IF s = <<>> THEN <<>>
             ELSE IF s[Len(s)] = " " THEN RStrip(SubSeq(s, 1, Len(s) - 1)) ELSE s

\* rapidfuzz.utils.default_process: every character that is not alphanumeric
\* becomes a blank, leading and trailing blanks are removed, letters are lowered
default_process(s) ==
    LET blanked == [i \in 1..Len(s) |->
                      IF s[i] \in Letters \cup Capitals THEN ToLower(s[i]) ELSE " "]
    IN  RStrip(LStrip(blanked))

\* length of a longest common subsequence
RECURSIVE LCS(_, _)
LCS(s, u) ==
    IF s = <<>> \/ u = <<>> THEN 0
    ELSE IF Head(s) = Head(u) THEN 1 + LCS(Tail(s), Tail(u))
    ELSE Max(LCS(Tail(s), u), LCS(s, Tail(u)))

\* rapidfuzz.fuzz.QRatio(s1, s2, processor=default_process): 0 when a processed
\* string is empty, else the normalized Indel similarity 100 * 2*LCS / (|s1|+|s2|)
\* (its integer part: it is only ever compared with the integer threshold)
QRatio(s1, s2) ==
    LET p1 == default_process(s1)
        p2 == default_process(s2)
    IN  IF p1 = <<>> \/ p2 = <<>> THEN 0
        ELSE (200 * LCS(p1, p2)) \div (Len(p1) + Len(p2))

\* a faulty Matches: the score is tested for truth, never compared with the threshold
MatchesTruthy(name, wanted) == QRatio(name, wanted) # 0

\* the comparison of lines 54-58, 92-98 and 109-113
Matches(name, wanted) == QRatio(name, wanted) >= params.fuzz

-----------------------------------------------------------------------------
(* The names, the library and the input files the model draws from *)

nAB == <<"a", "b">>
nAb == <<"A", "b", "!">>
nABC == <<"a", "b", "c">>
nCD == <<"c", "d">>
NameSet == {nAB, nAb, nABC, nCD}

None == 0            \* Python's None, where an identifier is expected
TrackLimit == 100    \* "limit" of the track listing

KnownArtists == {"x", "z"}      \* the artists the server has
Artists == {"x", "y", "z"}      \* the artists the input files name

\* albums the server may hold for artist "x": display name, track names
AlbumPool ==
    { [Name |-> nAB,  Tracks |-> <<nABC, nAB>>],
      [Name |-> nAb,  Tracks |-> <<nCD>>],
      [Name |-> nABC, Tracks |-> <<nABC, nAB>>] }

SeqsUpTo(S, n) == UNION {[1..k -> S] : k \in 0..n}

\* the server gives every album and every track its own identifier
MkLibrary(shape) ==
    [i \in 1..Len(shape) |->
        [Id |-> 100 * i,
         Name |-> shape[i].Name,
         Tracks |-> [j \in 1..Len(shape[i].Tracks) |->
                       [Id |-> 10 * i + j, Name |-> shape[i].Tracks[j]]]]]

\* artist "z" has one album with one track
AlbumsOfZ == <<[Id |-> 900, Name |-> nCD, Tracks |-> <<[Id |-> 91, Name |-> nCD]>>]>>

Libraries ==
    {[a \in KnownArtists |-> IF a = "x" THEN MkLibrary(shape) ELSE AlbumsOfZ] :
        shape \in SeqsUpTo(AlbumPool, MaxAlbums)}

\* track entries of an input file; a spotify item may have "track": null
NoneTrack == [none |-> TRUE]
IsNone(track) == "none" \in DOMAIN track
Tr(track, artist, album) ==
    [trackName |-> track, artistName |-> artist, albumName |-> album]
Descriptors ==
    {Tr(nAB, "x", nAB), Tr(nCD, "x", nCD), Tr(nAB, "y", nAB), Tr(nCD, "z", nCD)}
\* the items of the spotify exports
SpotifyItems == {Tr(nAB, "x", nAB), Tr(nCD, "z", nCD), NoneTrack}

PlaylistNames == {"p", "q"}
Stem == "p"          \* Path(filename).stem

RECURSIVE Rows(_)
Rows(pls) == IF pls = <<>> THEN 0 ELSE Len(Head(pls).items) + Rows(Tail(pls))

\* csv files: the header has the three columns or not, and the rows
CsvFiles ==
    { [ok |-> TRUE, playlists |-> <<[name |-> Stem, items |-> rows]>>] :
        rows \in SeqsUpTo(Descriptors, MaxRows) }
    \cup { [ok |-> FALSE, playlists |-> <<[name |-> Stem, items |-> <<>>]>>] }

\* spotify exports: the text decodes as JSON or not, and content["playlists"]
JsonFiles ==
    { [ok |-> TRUE, playlists |-> pls] :
        pls \in { q \in SeqsUpTo([name : PlaylistNames,
                                  items : SeqsUpTo(SpotifyItems, MaxRows)],
                                 MaxPlaylists) :
                    /\ Rows(q) <= MaxRows
                    /\ Len(q) > 0 => q[1].name = Stem } }
    \cup { [ok |-> FALSE, playlists |-> <<>>] }

-----------------------------------------------------------------------------
(* The lookups of one get_music call.  st is what they read and change:     *)
(* the two memo tables, the requests sent, those that failed, and whether   *)
(* an exception is propagating (abort).  fm is the request of this call     *)
(* that the network fails, if any.                                          *)

FailureModes == {"none", "artist", "albums", "tracks"}

NoEntry == [hit |-> FALSE, val |-> <<>>]
Entry(v) == [hit |-> TRUE, val |-> v]

\* get_all_albums: the artist lookup's HTTPException (unknown artist, or the
\* network) is caught and [] returned, which @cache keeps; the album listing's
\* is not caught
get_all_albums(st, artist, fm) ==
    LET c == st.ac[artist]
        sent == [st EXCEPT !.reqs = @ \cup {"artist"}]
    IN  IF c.hit THEN [val |-> c.val, st |-> st]
        ELSE IF fm = "artist"
        THEN [val |-> <<>>,
              st |-> [sent EXCEPT !.failed = @ \cup {"artist"},
                                  !.ac[artist] = Entry(<<>>)]]
        ELSE IF artist \notin KnownArtists
        THEN [val |-> <<>>, st |-> [sent EXCEPT !.ac[artist] = Entry(<<>>)]]
        ELSE IF fm = "albums"
        THEN [val |-> <<>>,
              st |-> [sent EXCEPT !.reqs = @ \cup {"albums"},
                                  !.failed = @ \cup {"albums"},
                                  !.abort = TRUE]]
        ELSE [val |-> library[artist],
              st |-> [sent EXCEPT !.reqs = @ \cup {"albums"},
                                  !.ac[artist] = Entry(library[artist])]]

\* client.items(parentId = album, limit = 100).get("Items")
Items(item) == SubSeq(item.Tracks, 1, Min(Len(item.Tracks), TrackLimit))

\* a faulty AlbumLoop: the loop stops at the first album that matches
RECURSIVE AlbumLoopBreak(_, _, _)
AlbumLoopBreak(albums, album, response) ==
    IF albums = <<>> THEN response
    ELSE IF Matches(Head(albums).Name, album) THEN Items(Head(albums))
    ELSE AlbumLoopBreak(Tail(albums), album, response)

\* the loop of get_all_tracks: every album that matches overwrites response
RECURSIVE AlbumLoop(_, _, _)
AlbumLoop(albums, album, response) ==
    IF albums = <<>> THEN response
    ELSE AlbumLoop(Tail(albums), album,
                   IF Matches(Head(albums).Name, album)
                   THEN Items(Head(albums)) ELSE response)

get_all_tracks(st, artist, album, fm) ==
    LET c == st.tc[<<artist, album>>]
        a == get_all_albums(st, artist, fm)
        fetches == \E i \in 1..Len(a.val) : Matches(a.val[i].Name, album)
        response == AlbumLoop(a.val, album, <<>>)
    IN  IF c.hit THEN [val |-> c.val, st |-> st]
        ELSE IF a.st.abort THEN [val |-> <<>>, st |-> a.st]
        ELSE IF fetches /\ fm = "tracks"
        THEN [val |-> <<>>,
              st |-> [a.st EXCEPT !.reqs = @ \cup {"tracks"},
                                  !.failed = @ \cup {"tracks"},
                                  !.abort = TRUE]]
        ELSE [val |-> response,
              st |-> [a.st EXCEPT !.reqs = IF fetches THEN @ \cup {"tracks"} ELSE @,
                                  !.tc[<<artist, album>>] = Entry(response)]]

\* the loops of lines 91-103 and 108-117: the first track that matches
RECURSIVE FirstMatch(_, _)
FirstMatch(tracks, trackName) ==
    IF tracks = <<>> THEN None
    ELSE IF Matches(Head(tracks).Name, trackName) THEN Head(tracks).Id
    ELSE FirstMatch(Tail(tracks), trackName)

\* lines 105-117: the artist's albums in turn, each through get_all_tracks
RECURSIVE AnyAlbumLoop(_, _, _, _)
AnyAlbumLoop(st, albums, track, fm) ==
    IF albums = <<>> THEN [val |-> None, via |-> "none", st |-> st]
    ELSE LET r == get_all_tracks(st, track.artistName, Head(albums).Name, fm)
             hit == FirstMatch(r.val, track.trackName)
         IN  IF r.st.abort THEN [val |-> None, via |-> "none", st |-> r.st]
             ELSE IF hit # None THEN [val |-> hit, via |-> "any", st |-> r.st]
             ELSE AnyAlbumLoop(r.st, Tail(albums), track, fm)

get_music(st, track, fm) ==
    LET r == get_all_tracks(st, track.artistName, track.albumName, fm)
        hit == FirstMatch(r.val, track.trackName)
        a == get_all_albums(r.st, track.artistName, fm)
    IN  IF r.st.abort THEN [val |-> None, via |-> "none", st |-> r.st]
        ELSE IF hit # None THEN [val |-> hit, via |-> "album", st |-> r.st]
        ELSE IF ~params.any_album THEN [val |-> None, via |-> "none", st |-> r.st]
        ELSE IF a.st.abort THEN [val |-> None, via |-> "none", st |-> a.st]
        ELSE AnyAlbumLoop(a.st, a.val, track, fm)

-----------------------------------------------------------------------------
(* The playlist calls *)

\* the orders in which Python may iterate a set of strings: list(s), ",".join(s)
Orders(S) ==
    {o \in [1..Cardinality(S) -> S] : \A i, j \in DOMAIN o : i # j => o[i] # o[j]}

\* spotify_parser: a dict from playlist name to tracks, of the playlists that
\* have items; a repeated name keeps its first position and its last tracks
RECURSIVE spotify_parser(_, _)
spotify_parser(pls, result) ==
    IF pls = <<>> THEN result
    ELSE LET pl == Head(pls)
             seen == \E i \in DOMAIN result : result[i].name = pl.name
             put == IF seen
                    THEN [i \in DOMAIN result |->
                            IF result[i].name = pl.name THEN pl ELSE result[i]]
                    ELSE Append(result, pl)
         IN  spotify_parser(Tail(pls), IF pl.items # <<>> THEN put ELSE result)

NoLast == [called |-> FALSE, track |-> NoneTrack, val |-> None, via |-> "none"]
EmptyAlbumsCache == [a \in Artists |-> NoEntry]
EmptyTracksCache == [k \in Artists \X NameSet |-> NoEntry]

-----------------------------------------------------------------------------
FuzzMin == 80
FuzzMax == 100

NoPlaylist == [exists |-> FALSE, ids |-> {}]

Init ==
    /\ \E fz \in {FuzzMin, FuzzMax}, any \in BOOLEAN, dry \in BOOLEAN,
          mode \in {"spotify", "csv", "none"} :
          /\ params = [fuzz |-> fz, any_album |-> any, dry_run |-> dry,
                       spotify |-> (mode = "spotify"), csv |-> (mode = "csv")]
          /\ file \in IF mode = "spotify" THEN JsonFiles
                       ELSE IF mode = "csv" THEN CsvFiles
                       ELSE {[ok |-> TRUE, playlists |-> <<>>]}
    /\ library \in Libraries
    /\ \E p \in {NoPlaylist, [exists |-> TRUE, ids |-> {11, 99}]} :
          playlists = [n \in PlaylistNames |-> IF n = Stem THEN p ELSE NoPlaylist]
    /\ pc = "start"
    /\ exitCode = 0
    /\ todo = <<>>
    /\ rest = <<>>
    /\ jellyfin_tracks = {}
    /\ resolvedSeq = <<>>
    /\ albumsCache = EmptyAlbumsCache
    /\ tracksCache = EmptyTracksCache
    /\ requests = {}
    /\ failed = {}
    /\ calls = <<>>
    /\ last = NoLast
    /\ run = 1
    /\ prevSynced = {}

inputs == <<params, file, library>>
resolution == <<jellyfin_tracks, resolvedSeq, albumsCache, tracksCache, last>>

\* sys.exit(code), or an exception nobody catches
Exit(code) ==
    /\ pc' = "exited"
    /\ exitCode' = code

\* main, line 259: jellyfin_client() connects to the server
JellyfinClient ==
    /\ pc = "start"
    /\ pc' = "user"
    /\ requests' = requests \cup {"authenticate"}
    /\ UNCHANGED <<inputs, playlists, exitCode, todo, rest, resolution, failed,
                   calls, run, prevSynced>>

\* main, line 260: get_user_id
GetUserId ==
    /\ pc = "user"
    /\ requests' = requests \cup {"users"}
    /\ \E outcome \in {"found", "unknown", "failed"} :
          /\ failed' = IF outcome = "failed" THEN failed \cup {"users"} ELSE failed
          /\ IF outcome = "found"
             THEN pc' = "file" /\ UNCHANGED exitCode
             ELSE Exit(1)
    /\ UNCHANGED <<inputs, playlists, todo, rest, resolution, calls, run, prevSynced>>

\* what main does once it has the playlists to create
Begin(pls) ==
    /\ todo' = pls
    /\ rest' = IF pls = <<>> THEN <<>> ELSE Head(pls).items
    /\ IF pls = <<>> THEN Exit(0) ELSE pc' = "create_playlist" /\ UNCHANGED exitCode

\* main, lines 261-286: the file is read the way the flags say
ReadFile ==
    /\ pc = "file"
    /\ IF params.spotify
       THEN IF file.ok THEN Begin(spotify_parser(file.playlists, <<>>))
            ELSE Exit(1) /\ UNCHANGED <<todo, rest>>
       ELSE IF params.csv
       THEN IF file.ok THEN Begin(file.playlists)
            ELSE Exit(1) /\ UNCHANGED <<todo, rest>>
       ELSE Begin(<<>>)
    /\ UNCHANGED <<inputs, playlists, resolution, requests, failed, calls, run,
                   prevSynced>>

\* create_playlist, lines 137-141: the next track of the comprehension
GetMusic ==
    /\ pc = "create_playlist"
    /\ rest # <<>>
    /\ LET track == Head(rest)
           st == [ac |-> albumsCache, tc |-> tracksCache, reqs |-> requests,
                  failed |-> failed, abort |-> FALSE]
       IN  IF IsNone(track)
           THEN /\ rest' = Tail(rest)
                /\ UNCHANGED <<pc, exitCode, resolution, requests, failed>>
           ELSE \E fm \in FailureModes :
                  LET r == get_music(st, track, fm)
                  IN  /\ albumsCache' = r.st.ac
                      /\ tracksCache' = r.st.tc
                      /\ requests' = r.st.reqs
                      /\ failed' = r.st.failed
                      /\ last' = [called |-> TRUE, track |-> track,
                                  val |-> r.val, via |-> r.via]
                      /\ IF r.st.abort
                         THEN /\ Exit(1)
                              /\ UNCHANGED <<rest, jellyfin_tracks, resolvedSeq>>
                         ELSE /\ rest' = Tail(rest)
                              /\ jellyfin_tracks' =
                                    IF r.val # None THEN jellyfin_tracks \cup {r.val}
                                    ELSE jellyfin_tracks
                              /\ resolvedSeq' =
                                    IF r.val # None THEN Append(resolvedSeq, r.val)
                                    ELSE resolvedSeq
                              /\ UNCHANGED <<pc, exitCode>>
    /\ UNCHANGED <<inputs, playlists, todo, calls, run, prevSynced>>

SyncModes == {"none", "playlist", "items", "post"}

\* a faulty Truthy: the test for an empty set is left out
TruthyAlways(ids) == TRUE

\* "if jellyfin_tracks:", line 142, and "if new_tracks := ...", line 145: a set
\* is true when it is not empty
Truthy(ids) == ids # {}

\* a faulty Difference: the playlist's items are not taken out
DifferenceNone(resolved, playlist_tracks) == resolved

\* line 145: jellyfin_tracks.difference(playlist_tracks)
Difference(resolved, playlist_tracks) == resolved \ playlist_tracks

\* a faulty DryRun: the flag is not looked at
DryRunIgnored == FALSE

\* lines 147 and 166: ctx.params.get("dry_run")
DryRun == params.dry_run

\* the end of one create_playlist call: main's loop goes on or main returns
NextPlaylist ==
    /\ todo' = Tail(todo)
    /\ rest' = IF Tail(todo) = <<>> THEN <<>> ELSE Head(Tail(todo)).items
    /\ IF Tail(todo) = <<>>
       THEN /\ Exit(0)
            /\ UNCHANGED <<jellyfin_tracks, resolvedSeq>>
       ELSE /\ jellyfin_tracks' = {}
            /\ resolvedSeq' = <<>>
            /\ UNCHANGED <<pc, exitCode>>

\* create_playlist, lines 142-182, once every track went through get_music.
\* fm is the request the network fails, if any; order is the order in which
\* Python iterates the set of identifiers it sends
CreatePlaylist ==
    /\ pc = "create_playlist"
    /\ rest = <<>>
    /\ LET name == Head(todo).name
           playlist == playlists[name]
           new_tracks == Difference(jellyfin_tracks, playlist.ids)
           ids == IF playlist.exists THEN new_tracks ELSE jellyfin_tracks
           op == IF playlist.exists THEN "append" ELSE "create"
       IN  IF ~Truthy(jellyfin_tracks)
           THEN /\ NextPlaylist
                /\ UNCHANGED <<playlists, requests, failed, calls>>
           ELSE \E fm \in SyncModes, order \in Orders(ids) :
                  LET lookupFails == fm = "playlist"
                      itemsFail == playlist.exists /\ fm = "items"
                      listed == playlist.exists /\ ~lookupFails
                      posted == /\ playlist.exists => Truthy(new_tracks)
                                /\ ~DryRun
                                /\ ~lookupFails
                                /\ ~itemsFail
                      postFails == posted /\ fm = "post"
                      call == [op |-> op, name |-> name, ids |-> order,
                               existed |-> playlist.exists,
                               before |-> playlist.ids,
                               resolved |-> jellyfin_tracks,
                               inOrder |-> resolvedSeq,
                               ok |-> ~postFails]
                  IN  /\ requests' = requests
                            \cup {"media_folders"}
                            \cup (IF lookupFails THEN {} ELSE {"user_items"})
                            \cup (IF listed THEN {"playlist_items"} ELSE {})
                            \cup (IF posted THEN {op} ELSE {})
                      /\ failed' = failed
                            \cup (IF lookupFails THEN {"media_folders"} ELSE {})
                            \cup (IF itemsFail /\ ~lookupFails
                                  THEN {"playlist_items"} ELSE {})
                            \cup (IF postFails THEN {op} ELSE {})
                      /\ calls' = IF posted THEN Append(calls, call) ELSE calls
                      /\ playlists' =
                            IF posted /\ ~postFails
                            THEN [playlists EXCEPT ![name] =
                                    [exists |-> TRUE, ids |-> playlist.ids \cup ids]]
                            ELSE playlists
                      /\ IF lookupFails \/ itemsFail \/ postFails
                         THEN /\ Exit(1)
                              /\ UNCHANGED <<todo, rest, jellyfin_tracks, resolvedSeq>>
                         ELSE NextPlaylist
    /\ UNCHANGED <<inputs, albumsCache, tracksCache, last, run, prevSynced>>

\* the command is run again: same command line, file and server; a new
\* process starts with empty memo tables
Rerun ==
    /\ pc = "exited"
    /\ run < MaxRuns
    /\ run' = run + 1
    /\ prevSynced' = {calls[i].name : i \in {j \in DOMAIN calls : calls[j].ok}}
    /\ pc' = "start"
    /\ exitCode' = 0
    /\ todo' = <<>>
    /\ rest' = <<>>
    /\ jellyfin_tracks' = {}
    /\ resolvedSeq' = <<>>
    /\ albumsCache' = EmptyAlbumsCache
    /\ tracksCache' = EmptyTracksCache
    /\ requests' = {}
    /\ failed' = {}
    /\ calls' = <<>>
    /\ last' = NoLast
    /\ UNCHANGED <<inputs, playlists>>

Next ==
    \/ JellyfinClient
    \/ GetUserId
    \/ ReadFile
    \/ GetMusic
    \/ CreatePlaylist
    \/ Rerun

Spec == Init /\ [][Next]_vars

-----------------------------------------------------------------------------
(* What the claims speak of *)

TracksOf(albums) ==
    UNION {{albums[i].Tracks[j] : j \in DOMAIN albums[i].Tracks} : i \in DOMAIN albums}
LibraryTracks == UNION {TracksOf(library[a]) : a \in KnownArtists}

\* the tracks the input file lists under a playlist name
Listed(name) ==
    UNION {{file.playlists[i].items[j] : j \in DOMAIN file.playlists[i].items} :
             i \in {k \in DOMAIN file.playlists : file.playlists[k].name = name}}

\* the library track with this identifier scores at least the threshold
\* against this track name
Reaches(id, trackName) ==
    \E tr \in LibraryTracks : tr.Id = id /\ QRatio(tr.Name, trackName) >= params.fuzz

Range(f) == {f[i] : i \in DOMAIN f}

Mutating == {"create", "append"}

\* a sequence without its repetitions, in order of first occurrence
RECURSIVE Dedup(_, _)
Dedup(ids, out) ==
    IF ids = <<>> THEN out
    ELSE Dedup(Tail(ids), IF Head(ids) \in Range(out) THEN out ELSE Append(out, Head(ids)))

-----------------------------------------------------------------------------
\* C1: an identifier get_music returns is that of a library track whose
\* similarity to the descriptor's trackName is at least the threshold, and
\* every identifier sent in a create or append call is that of a track reaching
\* the threshold against a track name the file lists for that playlist.
C1_MatchReachesThreshold ==
    /\ (last.called /\ last.val # None) => Reaches(last.val, last.track.trackName)
    /\ \A i \in DOMAIN calls : \A id \in Range(calls[i].ids) :
          \E d \in Listed(calls[i].name) : ~IsNone(d) /\ Reaches(id, d.trackName)

\* a track that is not an exact match was returned at threshold 80 and sent
C1_Witness ==
    /\ params.fuzz = FuzzMin
    /\ last.called /\ last.val # None
    /\ ~ (\E tr \in LibraryTracks :
            tr.Id = last.val /\ QRatio(tr.Name, last.track.trackName) = FuzzMax)
    /\ \E i \in DOMAIN calls : last.val \in Range(calls[i].ids)

\* C2 (as claimed): a playlist the previous run created or appended to gets
\* no create and no append call in this run.
C2_RerunIssuesNothing ==
    \A i \in DOMAIN calls : calls[i].name \notin prevSynced

\* C3 (as claimed): a csv file without the three columns ends the run with a
\* non-zero exit and without any request to the server.
C3_MissingColumnsNoRequest ==
    (pc = "exited" /\ ~params.spotify /\ params.csv /\ ~file.ok)
        => (exitCode # 0 /\ requests = {})

\* C4: a create or append call is only sent for a playlist with at least one
\* resolved identifier; a finished csv import that resolved nothing has sent
\* none and left the server's playlists as they were.
C4_NothingResolvedNoCall ==
    /\ \A i \in DOMAIN calls : calls[i].resolved # {} /\ calls[i].ids # <<>>
    /\ (pc = "exited" /\ exitCode = 0 /\ params.csv /\ jellyfin_tracks = {})
          => (calls = <<>> /\ requests \cap Mutating = {})

\* an import whose tracks all went through get_music unresolved, not a dry run
C4_Witness ==
    /\ pc = "exited" /\ exitCode = 0 /\ params.csv /\ ~params.dry_run
    /\ last.called /\ last.val = None
    /\ jellyfin_tracks = {}
    /\ calls = <<>>

\* C5: a playlist that exists only ever gets one append call, of exactly the
\* resolved identifiers it does not hold, each once; once the call succeeded
\* the playlist holds what it held and the resolved identifiers; and no step
\* removes an item or a playlist.
C5_AppendIsDifference ==
    /\ [](\A i \in DOMAIN calls :
            /\ calls[i].existed <=> calls[i].op = "append"
            /\ \A j \in DOMAIN calls : calls[j].name = calls[i].name => j = i
            /\ calls[i].existed =>
                  /\ Range(calls[i].ids) = calls[i].resolved \ calls[i].before
                  /\ Len(calls[i].ids) = Cardinality(Range(calls[i].ids))
                  /\ Range(calls[i].ids) \cap calls[i].before = {}
                  /\ calls[i].ok =>
                        playlists[calls[i].name].ids
                            = calls[i].before \cup calls[i].resolved)
    /\ [][\A n \in PlaylistNames :
            /\ playlists[n].ids \subseteq playlists'[n].ids
            /\ playlists[n].exists => playlists'[n].exists]_vars

\* an append to a playlist that held an item the import resolves to and one
\* it does not, which added something
C5_Witness ==
    \E i \in DOMAIN calls :
        /\ calls[i].op = "append" /\ calls[i].ok
        /\ calls[i].before \cap calls[i].resolved # {}
        /\ calls[i].before \ calls[i].resolved # {}
        /\ calls[i].ids # <<>>

\* C6: in a dry run no create and no append call is sent, and the server's
\* playlists and their items never change.
C6_DryRunMutatesNothing ==
    /\ [](params.dry_run => (calls = <<>> /\ requests \cap Mutating = {}))
    /\ [][params.dry_run => playlists' = playlists]_vars

\* a dry run that resolved tracks for a playlist and finished
C6_Witness ==
    /\ params.dry_run
    /\ pc = "exited" /\ exitCode = 0
    /\ jellyfin_tracks # {}
    /\ "user_items" \in requests

\* C7 (as claimed): once a request has failed, the run has ended with a
\* non-zero exit.
C7_FailureAborts ==
    failed # {} => (pc = "exited" /\ exitCode # 0)

\* C8 (as claimed): with any_album set, when no request of the run failed and
\* some album of the artist holds a track reaching the threshold, get_music
\* returns an identifier.
C8_AnyAlbumFindsTrack ==
    ( /\ last.called
      /\ params.any_album
      /\ failed = {}
      /\ last.track.artistName \in KnownArtists
      /\ \E tr \in TracksOf(library[last.track.artistName]) :
            QRatio(tr.Name, last.track.trackName) >= params.fuzz )
        => last.val # None

\* the albums get_all_albums gave the last get_music call
LastAlbums == albumsCache[last.track.artistName].val

\* the album of LastAlbums that holds the returned track, and the track
LastAlbum == CHOOSE i \in DOMAIN LastAlbums :
                \E j \in DOMAIN LastAlbums[i].Tracks : LastAlbums[i].Tracks[j].Id = last.val
LastTrack == CHOOSE j \in DOMAIN LastAlbums[LastAlbum].Tracks :
                LastAlbums[LastAlbum].Tracks[j].Id = last.val

AlbumsReaching(wanted) ==
    {i \in DOMAIN LastAlbums : QRatio(LastAlbums[i].Name, wanted) >= params.fuzz}
TracksReaching(i, wanted) ==
    {j \in DOMAIN LastAlbums[i].Tracks :
        QRatio(LastAlbums[i].Tracks[j].Name, wanted) >= params.fuzz}

\* C9 (as claimed): a track found in the descriptor's album comes from an
\* album scoring highest among those that reach the threshold, and scores
\* highest among that album's tracks that reach it.
C9_BestMatch ==
    (last.called /\ last.via = "album") =>
        /\ \A i \in AlbumsReaching(last.track.albumName) :
              QRatio(LastAlbums[LastAlbum].Name, last.track.albumName)
                  >= QRatio(LastAlbums[i].Name, last.track.albumName)
        /\ \A j \in TracksReaching(LastAlbum, last.track.trackName) :
              QRatio(LastAlbums[LastAlbum].Tracks[LastTrack].Name, last.track.trackName)
                  >= QRatio(LastAlbums[LastAlbum].Tracks[j].Name, last.track.trackName)

\* C9 (amended): the album searched for an album name is the last album, in
\* the server's order, that reaches the threshold against it, and the track
\* returned is the first track of that album, in the server's order, that
\* reaches the threshold against the descriptor's trackName.
C9_LastAlbumFirstTrack ==
    (last.called /\ last.val # None) =>
        /\ \E wanted \in (IF last.via = "album" THEN {last.track.albumName}
                           ELSE {LastAlbums[i].Name : i \in DOMAIN LastAlbums}) :
              /\ AlbumsReaching(wanted) # {}
              /\ \A i \in AlbumsReaching(wanted) : i <= LastAlbum
              /\ LastAlbum \in AlbumsReaching(wanted)
        /\ LastTrack \in TracksReaching(LastAlbum, last.track.trackName)
        /\ \A j \in TracksReaching(LastAlbum, last.track.trackName) : LastTrack <= j

\* two albums and two tracks reached the threshold, and neither the album
\* searched nor the track returned is the best of them
C9_Witness ==
    /\ last.called /\ last.via = "album"
    /\ \E i \in AlbumsReaching(last.track.albumName) :
          QRatio(LastAlbums[i].Name, last.track.albumName)
              > QRatio(LastAlbums[LastAlbum].Name, last.track.albumName)
    /\ \E j \in TracksReaching(LastAlbum, last.track.trackName) :
          QRatio(LastAlbums[LastAlbum].Tracks[j].Name, last.track.trackName)
              > QRatio(LastAlbums[LastAlbum].Tracks[LastTrack].Name, last.track.trackName)

\* C10 (as claimed): a create call lists the resolved identifiers once each,
\* in the order in which get_music first returned them.
C10_CreateKeepsOrder ==
    \A i \in DOMAIN calls :
        calls[i].op = "create" => calls[i].ids = Dedup(calls[i].inOrder, <<>>)

====
